---- MODULE Spec2Model ----
(***************************************************************************)
(* Prioritized directory resolution of lib-voxels-directories.             *)
(*                                                                         *)
(* Two layers are modelled for one resolver instance of one category:      *)
(*   - the Base Resolver  (src/voxels/voxels_xdg/xdg/{config,data,state,   *)
(*     runtime}.rs): environment variable -> candidate -> verifier,        *)
(*     iterated over a priority table;                                     *)
(*   - the Application Resolver (src/voxels/voxels_xdg/{config,data,state, *)
(*     runtime}.rs, built with the "dbus" feature): cache, remote (DBus)   *)
(*     strategy, local (XDG) strategy through the Base Resolver,           *)
(*     resolve_and_create.                                                 *)
(* Paths are sequences of components; an absolute path starts with "/".    *)
(***************************************************************************)
EXTENDS Integers, Sequences, FiniteSets, TLC

VARIABLES
    cat,          \* category of the instance: config, data, state or runtime
    env,          \* process environment: variable name -> NotPresent | Var(path)
    fs,           \* filesystem: path -> "none" | "dir" | "file"
    basePriority, \* Base Resolver: priority.order (BTreeMap usize -> method)
    baseOut,      \* outcome of the last call made directly on the Base Resolver
    priority,     \* Application Resolver: priority.order (BTreeMap usize -> method)
    path,         \* Application Resolver: the cache, Option<PathBuf>
    pending,      \* the call suspended at the remote request's await, or "none"
    monitor,      \* the connection-monitor task: [state, cb], state none | running | lost | cancelled
    last,         \* record of the last completed Application Resolver call
    firstOk,      \* the first Ok(p) a resolve() of this instance returned
    failed,       \* a resolve() returned NoCandidate under the current priority
    aborted,      \* TRUE once a call has panicked (unwrap / todo! / expect)
    changes,      \* changes of the environment and filesystem so far
    got,          \* the map the caller holds from the last priority.get()
    rdn,          \* the last ApplicationRDN::new: [name, out]
    apps,         \* the last call on the applications-directory resolvers
    application,  \* the application of the per-application resolver that holds
                  \* the instance, <<>> when the instance is used directly
    cur,          \* the instance whose caller is running: 1 or 2
    other,        \* the fields of the instance whose caller is not running
    crateOut,     \* the last call on a resolver of the module src/base
    baseCall,     \* the last using_* or into() call made on the Base Resolver
    basePath      \* Base Resolver: the stored path field, Option<PathBuf>

vars == <<cat, env, fs, basePriority, baseOut, priority, path, pending,
          monitor, last, firstOk, failed, aborted, changes, got, rdn, apps, application,
          cur, other, crateOut, baseCall, basePath>>

\* the state outside the two resolver layers of one instance
extVars == <<rdn, apps, application, cur, other, crateOut, baseCall,
             basePath>>

\* the observations and the fields of the Base Resolver beside its priority
baseExt == <<baseCall, basePath>>

baseVars == <<basePriority, baseOut>>
appVars == <<priority, path, pending, monitor, last, firstOk, failed, aborted>>

-----------------------------------------------------------------------------
(* Paths                                                                   *)

Categories == {"config", "data", "state", "runtime"}

\* std::path::Path::is_absolute
is_absolute(p) == Len(p) > 0 /\ p[1] = "/"

\* std::path::Path::join: an absolute right-hand side replaces the left one
Join(p, q) == IF is_absolute(q) THEN q ELSE p \o q

\* the environment values and paths the model draws from
AbsDir == <<"/", "a">>
RelDir == <<"r">>
HomeDir == <<"/", "home", "u">>
RemoteDir == <<"/", "d">>

\* the relative suffix using_fhs joins onto HOME
FhsSuffix(c) ==
    CASE c = "config" -> <<".config">>
      [] c = "data" -> <<".local", "share">>
      [] c = "state" -> <<".local", "state">>
      [] OTHER -> <<>>

\* the fixed segment the Application Resolver joins onto the base directory
VoxelsSegment == <<"voxels">>

\* names of the environment variables each strategy reads
VoxelsVar(c) ==
    CASE c = "config" -> "VOXELS_CONFIG_HOME"
      [] c = "data" -> "VOXELS_DATA_HOME"
      [] c = "state" -> "VOXELS_STATE_HOME"
      [] OTHER -> "VOXELS_RUNTIME_HOME"

XdgVar(c) ==
    CASE c = "config" -> "XDG_CONFIG_HOME"
      [] c = "data" -> "XDG_DATA_HOME"
      [] c = "state" -> "XDG_STATE_HOME"
      [] OTHER -> "XDG_RUNTIME_DIR"

HomeVar == "HOME"

EnvNames(c) == {VoxelsVar(c), XdgVar(c)} \cup (IF c = "runtime" THEN {} ELSE {HomeVar})

NotPresent == [present |-> FALSE, value |-> <<>>]
Var(p) == [present |-> TRUE, value |-> p]

EnvValues(name) ==
    IF name = HomeVar THEN {NotPresent, Var(HomeDir)}
    ELSE {NotPresent, Var(AbsDir), Var(RelDir)}

\* candidate base directories whose filesystem state is modelled
BasePaths(c) ==
    {AbsDir, RelDir} \cup (IF c = "runtime" THEN {} ELSE {Join(HomeDir, FhsSuffix(c))})

AppPaths(c) == {Join(b, VoxelsSegment) : b \in BasePaths(c)}

FsPaths(c) == BasePaths(c) \cup AppPaths(c) \cup {RemoteDir}

Kinds == {"none", "dir", "file"}

\* the kinds each modelled path is drawn from: a regular file is tried in the
\* place of one candidate
KindsOf(p) == IF p = AbsDir THEN Kinds ELSE {"none", "dir"}

\* bound on the changes of the world around one instance
MaxChanges == 1

-----------------------------------------------------------------------------
(* Environment and filesystem accessors                                    *)

\* EnvInt::get_path_from_environment
get_path_from_environment(name) ==
    IF name \in DOMAIN env THEN env[name] ELSE NotPresent

Kind(p) == IF p \in DOMAIN fs THEN fs[p] ELSE "none"

\* FsInt::exists, FsInt::is_directory
exists(p) == Kind(p) # "none"
is_directory(p) == Kind(p) = "dir"

-----------------------------------------------------------------------------
(* Verifier                                                                *)

\* DefaultConfigVerifier::verify: exists, then is_directory
ConfigVerify(p) ==
    IF ~exists(p) THEN FALSE
    ELSE IF ~is_directory(p) THEN FALSE
    ELSE TRUE

\* a data/state/runtime verifier without the is_absolute probe
AbsVerifyRelative(p) ==
    IF ~exists(p) THEN FALSE
    ELSE IF ~is_directory(p) THEN FALSE
    ELSE TRUE

\* DefaultDataVerifier / DefaultStateVerifier / DefaultRuntimeVerifier::verify:
\* exists, then is_directory, then is_absolute
AbsVerify(p) ==
    IF ~exists(p) THEN FALSE
    ELSE IF ~is_directory(p) THEN FALSE
    ELSE IF ~is_absolute(p) THEN FALSE
    ELSE TRUE

verify(c, p) == IF c = "config" THEN ConfigVerify(p) ELSE AbsVerify(p)

\* the FsInt predicates one call of verify probes, in the order of the calls
ConfigProbes(p) ==
    IF ~exists(p) THEN <<"exists">>
    ELSE IF ~is_directory(p) THEN <<"exists", "is_directory">>
    ELSE <<"exists", "is_directory">>

AbsProbes(p) ==
    IF ~exists(p) THEN <<"exists">>
    ELSE IF ~is_directory(p) THEN <<"exists", "is_directory">>
    ELSE IF ~is_absolute(p) THEN <<"exists", "is_directory", "is_absolute">>
    ELSE <<"exists", "is_directory", "is_absolute">>

probes(c, p) == IF c = "config" THEN ConfigProbes(p) ELSE AbsProbes(p)

-----------------------------------------------------------------------------
(* Results                                                                 *)

NoMethod == "none"
Ok(p, m) == [tag |-> "Ok", path |-> p, how |-> m]
NoCandidate == [tag |-> "NoCandidate", path |-> <<>>, how |-> NoMethod]
Abort == [tag |-> "Abort", path |-> <<>>, how |-> NoMethod]
NoResult == [tag |-> "None", path |-> <<>>, how |-> NoMethod]

-----------------------------------------------------------------------------
(* Base Resolver                                                           *)

\* enum {Config,Data,State}DirectoryResolutionMethods / RuntimeDirectoryResolutionMethods
BaseMethods(c) ==
    IF c = "runtime" THEN {"FromXDG", "FromVoxels"}
    ELSE {"FromXDG", "FromFHS", "FromVoxels"}

\* a default order that puts the hierarchy fallback before the standard variable
BasePriorityDefaultFhsFirst(c) ==
    IF c = "runtime" THEN (0 :> "FromVoxels")
    ELSE (0 :> "FromVoxels" @@ 1 :> "FromFHS" @@ 2 :> "FromXDG")

\* impl Default for {Config,Data,State}DirectoryPriority / RuntimeDirectoryPriority
BasePriorityDefault(c) ==
    IF c = "runtime" THEN (0 :> "FromVoxels")
    ELSE (0 :> "FromVoxels" @@ 1 :> "FromXDG" @@ 2 :> "FromFHS")

\* the arrays [Methods; 3] that set_all accepts
BaseOrders(c) == [0..2 -> BaseMethods(c)]

\* using_fhs that verifies HOME itself and forgets the join
using_fhs_unjoined(c) ==
    LET v == get_path_from_environment(HomeVar) IN
    IF ~v.present THEN NoCandidate
    ELSE IF verify(c, v.value) THEN Ok(v.value, "FromFHS") ELSE NoCandidate

\* using_fhs that joins the data category's suffix in every category
using_fhs_share(c) ==
    LET v == get_path_from_environment(HomeVar) IN
    IF ~v.present THEN NoCandidate
    ELSE LET p == Join(v.value, FhsSuffix("data")) IN
         IF verify(c, p) THEN Ok(p, "FromFHS") ELSE NoCandidate

\* using_fhs: HOME joined with the category suffix, verified
using_fhs(c) ==
    LET v == get_path_from_environment(HomeVar) IN
    IF ~v.present THEN NoCandidate
    ELSE LET p == Join(v.value, FhsSuffix(c)) IN
         IF verify(c, p) THEN Ok(p, "FromFHS") ELSE NoCandidate

\* using_xdg that returns the variable's value without asking the verifier
using_xdg_unverified(c) ==
    LET v == get_path_from_environment(XdgVar(c)) IN
    IF ~v.present THEN NoCandidate
    ELSE Ok(v.value, "FromXDG")

\* using_xdg: the standard variable's value, verified
using_xdg(c) ==
    LET v == get_path_from_environment(XdgVar(c)) IN
    IF ~v.present THEN NoCandidate
    ELSE IF verify(c, v.value) THEN Ok(v.value, "FromXDG") ELSE NoCandidate

\* using_voxels: the application-override variable's value, verified
using_voxels(c) ==
    LET v == get_path_from_environment(VoxelsVar(c)) IN
    IF ~v.present THEN NoCandidate
    ELSE IF verify(c, v.value) THEN Ok(v.value, "FromVoxels") ELSE NoCandidate

Using(c, m) ==
    CASE m = "FromXDG" -> using_xdg(c)
      [] m = "FromVoxels" -> using_voxels(c)
      [] OTHER -> using_fhs(c)

\* the calls one using_* operation makes: the variables it asks EnvInt for,
\* and the candidates it hands to the verifier once `?` has let it go on
using_calls(c, m) ==
    LET name == CASE m = "FromXDG" -> XdgVar(c)
                  [] m = "FromVoxels" -> VoxelsVar(c)
                  [] OTHER -> HomeVar
        v == get_path_from_environment(name)
    IN [reads |-> <<name>>,
        verified |-> IF ~v.present THEN <<>>
                     ELSE IF m = "FromFHS" THEN <<Join(v.value, FhsSuffix(c))>>
                     ELSE <<v.value>>]

\* the observation of one using_* or into() call on the Base Resolver
NoBaseCall ==
    [op |-> "none", how |-> NoMethod, res |-> NoResult, reads |-> <<>>,
     verified |-> <<>>, tick |-> 0]

\* a resolve() loop that returns the outcome of its first iteration
BaseResolveFirstOnly(c, order, index) ==
    IF index >= Cardinality(DOMAIN order) THEN NoCandidate
    ELSE Using(c, order[index])

\* the loop of resolve(): for index in 0..order.len(), first Ok returns
RECURSIVE BaseResolveFrom(_, _, _)
BaseResolveFrom(c, order, index) ==
    IF index >= Cardinality(DOMAIN order) THEN NoCandidate
    ELSE LET r == Using(c, order[index]) IN
         IF r.tag = "Ok" THEN r
         ELSE BaseResolveFrom(c, order, index + 1)

\* {Config,Data,State,Runtime}Directory::resolve of the Base Resolver
base_resolve(c, order) == BaseResolveFrom(c, order, 0)

\* the strategies one call of resolve() attempts, in the order of the calls:
\* the loop calls using_* of order[index] and goes on only after an Err
RECURSIVE BaseAttemptsFrom(_, _, _)
BaseAttemptsFrom(c, order, index) ==
    IF index >= Cardinality(DOMAIN order) THEN <<>>
    ELSE IF Using(c, order[index]).tag = "Ok" THEN <<order[index]>>
    ELSE <<order[index]>> \o BaseAttemptsFrom(c, order, index + 1)

base_attempts(c, order) == BaseAttemptsFrom(c, order, 0)

-----------------------------------------------------------------------------
(* The resolvers of the module src/base (config, data, state)              *)

CrateBaseCategories == {"config", "data", "state"}

\* impl Default for {Config,Data,State}DirectoryPriority of src/base; set_all
\* and get are private to the module
CrateBasePriorityDefault == (0 :> "FromVoxels" @@ 1 :> "FromXDG" @@ 2 :> "FromFHS")

\* using_fhs of src/base: get_path_from_environment(..).unwrap() aborts when
\* HOME is unset
crate_using_fhs(c) ==
    LET v == get_path_from_environment(HomeVar) IN
    IF ~v.present THEN Abort
    ELSE LET p == Join(v.value, FhsSuffix(c)) IN
         IF verify(c, p) THEN Ok(p, "FromFHS") ELSE NoCandidate

\* using_xdg of src/base
crate_using_xdg(c) ==
    LET v == get_path_from_environment(XdgVar(c)) IN
    IF ~v.present THEN Abort
    ELSE IF verify(c, v.value) THEN Ok(v.value, "FromXDG") ELSE NoCandidate

\* using_voxels of src/base
crate_using_voxels(c) ==
    LET v == get_path_from_environment(VoxelsVar(c)) IN
    IF ~v.present THEN Abort
    ELSE IF verify(c, v.value) THEN Ok(v.value, "FromVoxels") ELSE NoCandidate

CrateUsing(c, m) ==
    CASE m = "FromXDG" -> crate_using_xdg(c)
      [] m = "FromVoxels" -> crate_using_voxels(c)
      [] OTHER -> crate_using_fhs(c)

\* resolve of src/base: `return match` ends the loop in its first iteration,
\* unreachable!() follows a loop over an empty order
crate_resolve(c, order) ==
    IF Cardinality(DOMAIN order) = 0 THEN Abort
    ELSE LET r == CrateUsing(c, order[0]) IN
         IF r = Abort THEN Abort
         ELSE IF r.tag = "Ok" THEN r
         ELSE NoCandidate

\* the observation of one call: the operation, the strategy of a using_* call
NoCrateCall == [op |-> "none", how |-> NoMethod, res |-> NoResult]

-----------------------------------------------------------------------------
(* Priority tables handed to the caller                                    *)

\* what the caller holds after get(): the table it came from (base, app), the
\* map, and whether the map is the caller's own copy or the live table
NoView == [ref |-> "none", from |-> "none", map |-> <<>>]

\* a get() that hands out the resolver's own table
get_shared(layer, order) == [ref |-> "live", from |-> layer, map |-> order]

\* {Config,Data,State,Runtime}DirectoryPriority::get: self.order.clone()
get(layer, order) == [ref |-> "copy", from |-> layer, map |-> order]

-----------------------------------------------------------------------------
(* Application identity (src/application.rs)                               *)

\* a name is a sequence of characters; the characters the model draws from
\* are ASCII letters, one letter outside ASCII (two bytes in UTF-8), a digit,
\* the separator, the underscore and one character of no accepted class
AsciiLetters == {"c", "o", "m", "e", "x", "a", "p", "l", "A"}
WideLetter == "U+00E9"
Digits == {"1"}
Separator == "."
Underscore == "_"
Hyphen == "-"

\* char::len_utf8
len_utf8(c) == IF c = WideLetter THEN 2 ELSE 1

\* str::len: the length of the string in bytes
RECURSIVE utf8_bytes(_, _, _)
utf8_bytes(s, lo, hi) ==
    IF lo > hi THEN 0
    ELSE IF lo = hi THEN len_utf8(s[lo])
    ELSE LET mid == (lo + hi) \div 2
         IN utf8_bytes(s, lo, mid) + utf8_bytes(s, mid + 1, hi)

len(s) == utf8_bytes(s, 1, Len(s))

\* char::is_numeric, char::is_alphanumeric
is_numeric(c) == c \in Digits
is_alphanumeric(c) == c \in AsciiLetters \cup {WideLetter} \cup Digits

\* str::split(sep): the pieces between the separators, empty pieces included
RECURSIVE split(_, _)
split(s, sep) ==
    IF \A i \in 1..Len(s) : s[i] # sep THEN <<s>>
    ELSE LET i == CHOOSE k \in 1..Len(s) :
                      s[k] = sep /\ \A j \in 1..(k - 1) : s[j] # sep
         IN <<SubSeq(s, 1, i - 1)>> \o split(SubSeq(s, i + 1, Len(s)), sep)

\* the concatenation of pieces of text
RECURSIVE concat(_)
concat(pieces) == IF pieces = <<>> THEN "" ELSE Head(pieces) \o concat(Tail(pieces))

\* the longest accepted name, in the unit of str::len
MaxNameLen == 255

InvalidName == [tag |-> "InvalidName", name |-> <<>>]
RdnOk(name) == [tag |-> "Ok", name |-> name]
NoRdn == [name |-> <<>>, out |-> [tag |-> "none", name |-> <<>>]]

\* no application: the instance is not held by a per-application resolver
NoApplication == <<>>

\* the observation of one call on the applications-directory resolvers
NoContents == [wellformed |-> FALSE, rdn |-> <<>>]
NoApps ==
    [op |-> "none", name |-> <<>>, res |-> NoResult, read |-> <<>>,
     rdn |-> <<>>, contents |-> NoContents]

\* ApplicationRDN::new
ApplicationRDN_new(name) ==
    IF len(name) > MaxNameLen \/ name = <<>> THEN InvalidName
    ELSE IF Cardinality({i \in 1..Len(name) : name[i] = Separator}) = 0
    THEN InvalidName
    ELSE IF \E k \in DOMAIN split(name, Separator) :
               LET element == split(name, Separator)[k]
               IN element = <<>> \/ is_numeric(Head(element))
    THEN InvalidName
    ELSE IF Cardinality({i \in 1..Len(name) :
                /\ ~is_alphanumeric(name[i])
                /\ name[i] # Underscore
                /\ name[i] # Separator}) > 0
    THEN InvalidName
    ELSE RdnOk(name)

\* the names of the documented examples
ComExampleApp == <<"c", "o", "m", ".", "e", "x", "a", "m", "p", "l", "e", ".",
                   "A", "p", "p">>
Example == <<"e", "x", "a", "m", "p", "l", "e">>
OneComExample == <<"1", "c", "o", "m", ".", "e", "x", "a", "m", "p", "l", "e">>

\* the applications the model draws from
Applications == {ComExampleApp, <<"a", ".", "A">>}

\* the names the model draws from: a short head over the character classes
\* followed by a run of one letter, which takes the name up to and over the limit
MaxHead == 3
HeadChars == {"a", WideLetter, "1", Separator, Underscore, Hyphen}
Heads == UNION {[1..n -> HeadChars] : n \in 0..MaxHead}
Pads == {0, 1} \cup ((MaxNameLen - 5)..(MaxNameLen + 1))
Padded(head, pad) == head \o [i \in 1..pad |-> "a"]
Names ==
    {Padded(h, n) : h \in Heads, n \in Pads}
        \cup {ComExampleApp, Example, OneComExample}

-----------------------------------------------------------------------------
(* Initial states                                                          *)

\* the observation of one call: the operation, its result, the calls it made
\* of the Base Resolver's resolve(), what became of its remote request (none,
\* nobus, ok, timeout, lost), the strategies it tried, whether the cache was
\* populated when it began, and whether a resolve() had returned Ok or
\* NoCandidate before it; resolved is what resolve() returned to
\* resolve_and_create before the directory was created, made whether the call
\* created a directory, requests the methods it asked the remote service for
NoCall ==
    [op |-> "none", res |-> NoResult, resolved |-> NoResult, base |-> 0,
     remote |-> "none",
     tried |-> <<>>, cached |-> FALSE, afterOk |-> FALSE, afterErr |-> FALSE,
     made |-> FALSE, requests |-> <<>>, tick |-> 0]

NoMonitor == [state |-> "none", cb |-> "none"]

\* no second instance
NoInstance == [basePriority |-> <<>>, priority |-> <<>>]

None == [some |-> FALSE, value |-> <<>>]
Some(p) == [some |-> TRUE, value |-> p]

Worlds(c) ==
    {w \in [env : [EnvNames(c) -> UNION {EnvValues(n) : n \in EnvNames(c)}],
            fs : [FsPaths(c) -> Kinds]] :
        /\ \A n \in EnvNames(c) : w.env[n] \in EnvValues(n)
        /\ \A p \in BasePaths(c) : w.fs[p] \in KindsOf(p)
        /\ \A p \in FsPaths(c) \ BasePaths(c) : w.fs[p] = "none"}

\* a Base Resolver is exercised in every environment and with every state of
\* the candidate directories; nothing has been created below them yet
InitWorldBase ==
    /\ cat \in Categories
    /\ \E w \in Worlds(cat) : env = w.env /\ fs = w.fs
    /\ changes = 0

\* an Application Resolver starts in a world where at most the standard
\* variable is set; the other variables and directories appear by changes
InitWorld ==
    /\ cat \in Categories
    /\ \E w \in Worlds(cat) :
          /\ \A n \in EnvNames(cat) \ {XdgVar(cat)} : ~w.env[n].present
          /\ \A p \in BasePaths(cat) \ {AbsDir, RelDir} : w.fs[p] = "none"
          /\ env = w.env /\ fs = w.fs
    /\ changes = 0

\* impl Default for {Config,Data,State,Runtime}DirectoryPriority without the
\* "dbus" feature
PriorityDefaultLocal == (0 :> "FromXDG")

\* a default order that puts the local strategy first
PriorityDefaultXdgFirst == (0 :> "FromXDG" @@ 1 :> "FromDBus")

\* impl Default for {Config,Data,State,Runtime}DirectoryPriority (feature "dbus")
PriorityDefault == (0 :> "FromDBus" @@ 1 :> "FromXDG")

InitResolvers ==
    /\ basePriority = BasePriorityDefault(cat)
    /\ baseOut = NoResult
    /\ priority = PriorityDefault
    /\ path = None
    /\ pending = "none"
    /\ monitor = NoMonitor
    /\ last = NoCall
    /\ firstOk = None
    /\ failed = FALSE
    /\ aborted = FALSE
    /\ got = NoView

\* nothing has been constructed beside the instance
InitExt ==
    /\ rdn = NoRdn
    /\ apps = NoApps
    /\ crateOut = NoCrateCall
    /\ baseCall = NoBaseCall
    /\ basePath = None
    /\ application = NoApplication
    /\ cur = 1
    /\ other = NoInstance

Init == InitWorld /\ InitResolvers /\ InitExt

InitBase == InitWorldBase /\ InitResolvers /\ InitExt

-----------------------------------------------------------------------------
(* Operations on the Base Resolver                                         *)

\* a set_all that inserts the last strategy one key too far
BaseSetAllGap(new_order) ==
    /\ basePriority' = (0 :> new_order[0] @@ 1 :> new_order[1] @@ 3 :> new_order[2])
    /\ baseOut' = NoResult
    /\ UNCHANGED <<extVars, got, cat, env, fs, changes, appVars>>

\* {Config,Data,State,Runtime}DirectoryPriority::set_all
BaseSetAll(new_order) ==
    /\ basePriority' = (0 :> new_order[0] @@ 1 :> new_order[1] @@ 2 :> new_order[2])
    /\ baseOut' = NoResult
    /\ UNCHANGED <<extVars, got, cat, env, fs, changes, appVars>>

\* a resolve() that keeps the path it found in the stored path field
BaseResolveStoring ==
    /\ baseCall.op # "into"
    /\ baseOut' = base_resolve(cat, basePriority)
    /\ basePath' = IF baseOut'.tag = "Ok" THEN Some(baseOut'.path) ELSE basePath
    /\ UNCHANGED <<rdn, apps, application, cur, other, crateOut, baseCall,
                   got, cat, env, fs, changes, basePriority, appVars>>

\* a call of resolve() on the Base Resolver
BaseResolve ==
    /\ baseOut' = base_resolve(cat, basePriority)
    /\ UNCHANGED <<extVars, got, cat, env, fs, changes, basePriority, appVars>>

NextBase ==
    \/ \E o \in BaseOrders(cat) : BaseSetAll(o)
    \/ BaseResolve

SpecBase == InitBase /\ [][NextBase]_vars

-----------------------------------------------------------------------------
(* The Base Resolver with its per-strategy operations and its stored path  *)

\* a call of using_fhs(), using_xdg() or using_voxels()
BaseUsing(m) ==
    /\ baseCall.op # "into"
    /\ baseCall' = [op |-> "using", how |-> m, res |-> Using(cat, m),
                    reads |-> using_calls(cat, m).reads,
                    verified |-> using_calls(cat, m).verified,
                    tick |-> 1 - baseCall.tick]
    /\ UNCHANGED <<rdn, apps, application, cur, other, crateOut, basePath,
                   got, cat, env, fs, changes, baseVars, appVars>>

\* Into<PathBuf>::into(self): the instance is consumed, the stored path
\* unwrapped
BaseInto ==
    /\ baseCall.op # "into"
    /\ baseCall' = [NoBaseCall EXCEPT
                       !.op = "into",
                       !.res = IF basePath.some THEN Ok(basePath.value, NoMethod)
                               ELSE Abort,
                       !.tick = 1 - baseCall.tick]
    /\ UNCHANGED <<rdn, apps, application, cur, other, crateOut, basePath,
                   got, cat, env, fs, changes, baseVars, appVars>>

NextUsing ==
    \/ \E o \in BaseOrders(cat) : baseCall.op # "into" /\ BaseSetAll(o)
    \/ baseCall.op # "into" /\ BaseResolve
    \/ \E m \in BaseMethods(cat) : BaseUsing(m)
    \/ BaseInto

SpecUsing == InitBase /\ [][NextUsing]_vars

-----------------------------------------------------------------------------
(* Application Resolver                                                    *)

\* enum {Config,Data,State,Runtime}DirectoryResolutionMethods (feature "dbus")
Methods == {"FromXDG", "FromDBus"}

\* the arrays [Methods; 2] that set_all accepts
Orders == [0..1 -> Methods]

\* what the remote service can answer to the category's request
RemoteReplies == {RemoteDir}

AppOk(p) == Ok(p, NoMethod)

\* DBUS_STANDARD_VOXELS_XDG_{CONFIG,DATA,RUNTIME}_METHOD_NAME
method_name(c) ==
    CASE c = "config" -> "config"
      [] c = "data" -> "data"
      [] OTHER -> "runtime"

\* a reply that is joined with the application segment
remote_path_joined(reply) == Join(reply, VoxelsSegment)

\* PathBuf::from(reply): the path the service answered
remote_path(reply) == reply

\* is_resolved
is_resolved == path.some

\* std::fs::create_dir_all on the modelled paths: fails when a component of p
\* is a regular file, otherwise p and its missing ancestors become directories
IsPrefix(q, p) == Len(q) <= Len(p) /\ SubSeq(p, 1, Len(q)) = q
Components(p) == {q \in DOMAIN fs : IsPrefix(q, p)}
\* std::fs::create_dir: fails when the directory is already there
create_dir_ok(p) ==
    /\ \A q \in Components(p) : fs[q] # "file"
    /\ \A q \in Components(p) : q = p => fs[q] = "none"

create_dir_all_ok(p) == \A q \in Components(p) : fs[q] # "file"
create_dir_all(p) == [q \in DOMAIN fs |-> IF q \in Components(p) THEN "dir" ELSE fs[q]]

\* resolve_using_xdg that stores the joined path before looking at the Base
\* Resolver's result
resolve_using_xdg_eager ==
    IF is_resolved
    THEN [res |-> AppOk(path.value), path |-> path, base |-> 0]
    ELSE LET b == base_resolve(cat, basePriority)
             p == Join(b.path, VoxelsSegment) IN
         [res |-> IF b.tag = "Ok" THEN AppOk(p) ELSE NoCandidate,
          path |-> IF cat = "state" THEN path ELSE Some(p),
          base |-> 1]

\* resolve_using_xdg without the is_resolved() early return
resolve_using_xdg_uncached ==
    LET b == base_resolve(cat, basePriority) IN
    IF b.tag # "Ok"
    THEN [res |-> NoCandidate, path |-> path, base |-> 1]
    ELSE LET p == Join(b.path, VoxelsSegment) IN
         [res |-> AppOk(p),
          path |-> IF cat = "state" THEN path ELSE Some(p),
          base |-> 1]

\* resolve_using_xdg: [res, path (the cache afterwards), base (calls of the
\* Base Resolver's resolve)]
resolve_using_xdg ==
    IF is_resolved
    THEN [res |-> AppOk(path.value), path |-> path, base |-> 0]
    ELSE LET b == base_resolve(cat, basePriority) IN
         IF b.tag # "Ok"
         THEN [res |-> NoCandidate, path |-> path, base |-> 1]
         ELSE LET p == Join(b.path, VoxelsSegment) IN
              [res |-> AppOk(p),
               path |-> IF cat = "state" THEN path ELSE Some(p),
               base |-> 1]

\* the categories whose resolve_using_dbus is implemented (the others are todo!())
DbusImplemented(c) == c \in {"config", "data"}

\* the calls of the per-application resolvers (src/voxels/data.rs, state.rs),
\* and the calls that create the directory they resolve
PerAppOps == {"app_resolve", "app_create"}
CreateOps == {"create", "app_create"}

\* Application::rdn().as_path(): the path segment of the application identity
as_path(a) == <<concat(a)>>

\* a per-application resolve that returns what the Application Resolver
\* returned
per_app_unjoined(op, res) == res

\* a per-application resolve that answers every call with the directory of
\* one application
per_app_stale(op, res) ==
    IF op \in PerAppOps /\ res.tag = "Ok"
    THEN AppOk(Join(res.path, as_path(ComExampleApp)))
    ELSE res

\* {Data,State}Directory::resolve(application) after base.resolve() returned
\* res: data_path is never assigned, the early return is never taken
per_app(op, res) ==
    IF op \in PerAppOps /\ res.tag = "Ok"
    THEN AppOk(Join(res.path, as_path(application)))
    ELSE res

\* a tail of resolve_and_create that drops the result of create_dir_all
AfterResolveIgnoring(op, res) ==
    IF op \in CreateOps /\ res.tag = "Ok" /\ create_dir_all_ok(res.path)
    THEN [res |-> res, fs |-> create_dir_all(res.path)]
    ELSE [res |-> res, fs |-> fs]

\* the tail of resolve_and_create after resolve() returned res:
\* create_dir_all(resolved).expect(..)
AfterResolve(op, res) ==
    IF op \in CreateOps /\ res.tag = "Ok"
    THEN IF create_dir_all_ok(res.path)
         THEN [res |-> res, fs |-> create_dir_all(res.path)]
         ELSE [res |-> Abort, fs |-> fs]
    ELSE [res |-> res, fs |-> fs]

\* a call returns (or panics): the observation of the call is recorded
Complete(op, res0, newPath, base, remote, tried) ==
    LET r == per_app(op, res0)
        a == AfterResolve(op, r) IN
    /\ path' = newPath
    /\ fs' = a.fs
    /\ last' = [op |-> op, res |-> a.res, resolved |-> r, base |-> base,
                remote |-> remote,
                tried |-> tried, cached |-> is_resolved, afterOk |-> firstOk.some,
                afterErr |-> failed, made |-> (a.fs # fs),
                requests |-> IF remote \in {"ok", "timeout", "lost"}
                             THEN last.requests ELSE <<>>,
                tick |-> 1 - last.tick]
    /\ firstOk' = IF ~firstOk.some /\ op = "resolve" /\ a.res.tag = "Ok"
                  THEN Some(a.res.path) ELSE firstOk
    /\ failed' = (failed \/ (op = "resolve" /\ a.res = NoCandidate))
    /\ aborted' = (a.res = Abort)
    /\ pending' = "none"

Idle == ~aborted /\ pending = "none"

\* the local strategy, called directly or from resolve() / resolve_and_create()
XdgCall(op, tried) ==
    LET x == resolve_using_xdg IN
    /\ Complete(op, x.res, x.path, x.base, "none", tried)
    /\ UNCHANGED <<extVars, got, cat, env, changes, baseVars, priority, monitor>>

\* resolve_using_dbus up to the await of the method call.  cb is the callback
\* the monitor task holds: "caller" for a direct call, "noop" for the closure
\* |_| {} that resolve() passes
DbusCall(op, cb, tried) ==
    IF ~DbusImplemented(cat)
    THEN \* todo!()
         /\ Complete(op, Abort, path, 0, "none", tried)
         /\ UNCHANGED <<extVars, got, cat, env, changes, baseVars, priority, monitor>>
    ELSE IF is_resolved
    THEN /\ Complete(op, AppOk(path.value), path, 0, "none", tried)
         /\ UNCHANGED <<extVars, got, cat, env, changes, baseVars, priority, monitor>>
    ELSE \/ \* new_session_sync().unwrap() with no session bus
            /\ Complete(op, Abort, path, 0, "nobus", tried)
            /\ UNCHANGED <<extVars, got, cat, env, changes, baseVars, priority, monitor>>
         \/ \* session opened, monitor task spawned, request sent
            /\ pending' = op
            /\ monitor' = [state |-> "running", cb |-> cb]
            /\ last' = [NoCall EXCEPT !.tried = tried, !.tick = last.tick,
                                      !.requests = <<method_name(cat)>>]
            /\ UNCHANGED <<extVars, got, cat, env, fs, changes, baseVars, priority, path,
                           firstOk, failed, aborted>>

\* the loop of resolve(): `return match` leaves the loop in its first iteration
ResolveCall(op) ==
    IF Cardinality(DOMAIN priority) = 0
    THEN /\ Complete(op, NoCandidate, path, 0, "none", <<>>)
         /\ UNCHANGED <<extVars, got, cat, env, changes, baseVars, priority, monitor>>
    ELSE IF priority[0] = "FromDBus"
    THEN DbusCall(op, "noop", <<"FromDBus">>)
    ELSE XdgCall(op, <<"FromXDG">>)

\* {Config,Data,State,Runtime}DirectoryPriority::set_all
SetAll(new_order) ==
    /\ Idle
    /\ priority' = (0 :> new_order[0] @@ 1 :> new_order[1])
    /\ last' = NoCall
    /\ failed' = FALSE
    /\ UNCHANGED <<extVars, got, cat, env, fs, changes, baseVars, path, pending, monitor,
                   firstOk, aborted>>

ResolveUsingXdg == Idle /\ XdgCall("xdg", <<"FromXDG">>)

ResolveUsingDbus == Idle /\ DbusCall("dbus", "caller", <<"FromDBus">>)

Resolve == Idle /\ ResolveCall("resolve")

ResolveAndCreate == Idle /\ ResolveCall("create")

\* the awaited method call finishes: a reply, or an error (timeout after the
\* proxy's one second, no such service, connection lost) that .unwrap() turns
\* into a panic
DbusReply ==
    /\ ~aborted
    /\ pending # "none"
    /\ \/ \E s \in RemoteReplies :
            /\ monitor.state = "running"
            /\ Complete(pending, AppOk(remote_path(s)), Some(remote_path(s)),
                        0, "ok", last.tried)
       \/ Complete(pending, Abort, path, 0,
                   IF monitor.state = "lost" THEN "lost" ELSE "timeout", last.tried)
    /\ UNCHANGED <<extVars, got, cat, env, changes, baseVars, priority, monitor>>

\* the monitor task: the connection's IO resource ends with an error and the
\* task calls the callback it holds (monitor.cb)
ConnectionLost ==
    /\ ~aborted
    /\ monitor.state = "running"
    /\ monitor' = [monitor EXCEPT !.state = "lost"]
    /\ UNCHANGED <<extVars, got, cat, env, fs, changes, baseVars, priority, path, pending, last,
                   firstOk, failed, aborted>>

\* the world around the instance changes
EnvChange(name, v) ==
    /\ ~aborted
    /\ changes < MaxChanges
    /\ changes' = changes + 1
    /\ env[name] # v
    /\ env' = [env EXCEPT ![name] = v]
    /\ last' = IF pending = "none" THEN NoCall ELSE last
    /\ UNCHANGED <<extVars, got, cat, fs, baseVars, priority, path, pending, monitor,
                   firstOk, failed, aborted>>

FsChange(p, k) ==
    /\ ~aborted
    /\ changes < MaxChanges
    /\ changes' = changes + 1
    /\ fs[p] # k
    /\ fs' = [q \in DOMAIN fs |->
                IF q = p THEN k
                ELSE IF k # "dir" /\ IsPrefix(p, q) THEN "none"
                ELSE fs[q]]
    /\ last' = IF pending = "none" THEN NoCall ELSE last
    /\ UNCHANGED <<extVars, got, cat, env, baseVars, priority, path, pending, monitor,
                   firstOk, failed, aborted>>

Next ==
    \/ \E o \in Orders : SetAll(o)
    \/ ResolveUsingXdg
    \/ ResolveUsingDbus
    \/ Resolve
    \/ ResolveAndCreate
    \/ DbusReply
    \/ ConnectionLost
    \/ \E n \in EnvNames(cat) : \E v \in EnvValues(n) : EnvChange(n, v)
    \/ \E p \in BasePaths(cat) : \E k \in KindsOf(p) : FsChange(p, k)

Spec == Init /\ [][Next]_vars

-----------------------------------------------------------------------------
(* A freshly constructed Application Resolver: set_all is never called     *)

NextFresh ==
    \/ ResolveUsingXdg
    \/ ResolveUsingDbus
    \/ Resolve
    \/ ResolveAndCreate
    \/ DbusReply
    \/ ConnectionLost
    \/ \E n \in EnvNames(cat) : \E v \in EnvValues(n) : EnvChange(n, v)
    \/ \E p \in BasePaths(cat) : \E k \in KindsOf(p) : FsChange(p, k)

SpecFresh == Init /\ [][NextFresh]_vars

-----------------------------------------------------------------------------
(* The priority tables and their callers                                   *)

\* the caller reads the table of the Base Resolver / the Application Resolver
BaseGet ==
    /\ got' = get("base", basePriority)
    /\ UNCHANGED <<extVars, cat, env, fs, changes, baseVars, appVars>>

AppGet ==
    /\ got' = get("app", priority)
    /\ UNCHANGED <<extVars, cat, env, fs, changes, baseVars, appVars>>

\* the strategies of the table a returned map came from
MethodsOf(layer) == IF layer = "base" THEN BaseMethods(cat) ELSE Methods

\* the caller overwrites an entry of the map it holds; the write reaches a
\* resolver's table only when the map it holds is that table
ModifyCopy(i, m) ==
    /\ got.ref # "none"
    /\ i \in DOMAIN got.map
    /\ m \in MethodsOf(got.from)
    /\ got.map[i] # m
    /\ got' = [got EXCEPT !.map[i] = m]
    /\ basePriority' = IF got.ref = "live" /\ got.from = "base"
                       THEN [basePriority EXCEPT ![i] = m] ELSE basePriority
    /\ priority' = IF got.ref = "live" /\ got.from = "app"
                   THEN [priority EXCEPT ![i] = m] ELSE priority
    /\ UNCHANGED <<extVars, cat, env, fs, changes, baseOut, path, pending, monitor, last,
                   firstOk, failed, aborted>>

\* the world of a resolver whose standard variable names an existing directory
InitWorldSet ==
    /\ cat \in Categories
    /\ env = [n \in EnvNames(cat) |-> IF n = XdgVar(cat) THEN Var(AbsDir) ELSE NotPresent]
    /\ fs = [p \in FsPaths(cat) |-> IF p = AbsDir THEN "dir" ELSE "none"]
    /\ changes = 0

InitPriority == InitWorldSet /\ InitResolvers /\ InitExt

NextPriority ==
    \/ \E o \in BaseOrders(cat) : BaseSetAll(o)
    \/ \E o \in Orders : SetAll(o)
    \/ BaseGet
    \/ AppGet
    \/ \E i \in 0..2 : \E m \in BaseMethods(cat) \cup Methods : ModifyCopy(i, m)
    \/ BaseResolve

SpecPriority == InitPriority /\ [][NextPriority]_vars

-----------------------------------------------------------------------------
(* Construction of application identities                                  *)

\* a world in which no variable is set and no directory exists
InitWorldEmpty ==
    /\ cat = "data"
    /\ env = [n \in EnvNames(cat) |-> NotPresent]
    /\ fs = [p \in FsPaths(cat) |-> "none"]
    /\ changes = 0

\* the caller holds one of the names
InitRDN ==
    /\ InitWorldEmpty
    /\ InitResolvers
    /\ \E name \in Names : rdn = [NoRdn EXCEPT !.name = name]
    /\ apps = NoApps
    /\ crateOut = NoCrateCall
    /\ baseCall = NoBaseCall
    /\ basePath = None
    /\ application = NoApplication
    /\ cur = 1
    /\ other = NoInstance

\* the call ApplicationRDN::new(name)
NewRDN ==
    /\ rdn.out = NoRdn.out
    /\ rdn' = [rdn EXCEPT !.out = ApplicationRDN_new(rdn.name)]
    /\ UNCHANGED <<baseExt, apps, application, cur, other, crateOut, cat, env, fs, changes, got, baseVars, appVars>>

NextRDN == NewRDN

SpecRDN == InitRDN /\ [][NextRDN]_vars

\* #[derive(Deserialize)] on ApplicationRDN: the value is built from the name
\* the input holds, the field being filled in as it is
DeserializeRDN ==
    /\ rdn.out = NoRdn.out
    /\ rdn' = [rdn EXCEPT !.out = RdnOk(rdn.name)]
    /\ UNCHANGED <<baseExt, apps, application, cur, other, crateOut, cat, env,
                   fs, changes, got, baseVars, appVars>>

\* the ways an ApplicationRDN value comes to exist
NextValues ==
    \/ NewRDN
    \/ DeserializeRDN

SpecValues == InitRDN /\ [][NextValues]_vars

-----------------------------------------------------------------------------
(* Applications directory and manifests (src/voxels/applications.rs)       *)

\* a String is a sequence of pieces of text and of the separator "/"
Slash == "/"
VoxelsApplications == <<"voxels", Slash, "applications", Slash>>
ManifestToml == <<"manifest.toml">>

\* the components of the relative path a String denotes: the text between the
\* separators, a trailing separator ignored
path_of(string) ==
    LET between == SelectSeq(split(string, Slash), LAMBDA piece : piece # <<>>)
    IN [k \in DOMAIN between |-> concat(between[k])]

\* ApplicationRDN::name as a String
name_of(a) == <<concat(a)>>

\* the spelling of a path component
Spelled == Applications \cup {<<"a", "p", "p", "l", "i", "c", "a", "t", "i", "o", "n", "s">>}
spelling(component) ==
    IF \E w \in Spelled : concat(w) = component
    THEN CHOOSE w \in Spelled : concat(w) = component
    ELSE <<>>

\* the places of a manifest whose filesystem state is modelled, below one base
\* directory: one directory per application, and the path the resolver reads
ManifestPaths ==
    UNION {{Join(AbsDir, <<"voxels", "applications", concat(a), "manifest.toml">>),
            Join(AbsDir, path_of(VoxelsApplications \o VoxelsApplications
                                   \o name_of(a) \o ManifestToml))} :
           a \in Applications}

\* ApplicationsDirectory::resolve: applications_path is never assigned, the
\* Base Resolver of the data category is asked on every call
applications_resolve ==
    LET b == base_resolve("data", basePriority)
    IN IF b.tag = "Ok" THEN AppOk(Join(b.path, path_of(VoxelsApplications)))
       ELSE NoCandidate

\* the path ApplicationDirectory::resolve hands to Application::from_file
manifest_path(base, a) ==
    Join(base, path_of(VoxelsApplications \o name_of(a) \o ManifestToml))

\* what a manifest file can hold: text that parses as an Application or not,
\* and possibly a key that names an identity
Contents ==
    {c \in [wellformed : BOOLEAN, rdn : {NoApplication} \cup Applications] :
        ~c.wellformed => c.rdn = NoApplication}

\* a from_file that takes the identity the file names, when it names one
from_file_trusting(p, contents) ==
    IF Kind(p) # "file" THEN [res |-> Abort, rdn |-> <<>>]
    ELSE IF ~contents.wellformed THEN [res |-> Abort, rdn |-> <<>>]
    ELSE IF contents.rdn # NoApplication
    THEN [res |-> AppOk(p), rdn |-> contents.rdn]
    ELSE IF Len(p) < 2 THEN [res |-> Abort, rdn |-> <<>>]
    ELSE LET made == ApplicationRDN_new(spelling(p[Len(p) - 1])) IN
         IF made.tag # "Ok" THEN [res |-> Abort, rdn |-> <<>>]
         ELSE [res |-> AppOk(p), rdn |-> made.name]

\* Application::from_file: reads the file, parses it with the rdn field skipped
\* and takes the identity from the name of the directory that holds the file;
\* each unwrap aborts the call
from_file(p, contents) ==
    IF Kind(p) # "file" THEN [res |-> Abort, rdn |-> <<>>]
    ELSE IF ~contents.wellformed THEN [res |-> Abort, rdn |-> <<>>]
    ELSE IF Len(p) < 2 THEN [res |-> Abort, rdn |-> <<>>]
    ELSE LET made == ApplicationRDN_new(spelling(p[Len(p) - 1])) IN
         IF made.tag # "Ok" THEN [res |-> Abort, rdn |-> <<>>]
         ELSE [res |-> AppOk(p), rdn |-> made.name]

\* the override variable is left unset
InitApps ==
    /\ cat = "data"
    /\ \E w \in Worlds(cat), m \in [ManifestPaths -> {"none", "file"}] :
          /\ ~w.env[VoxelsVar(cat)].present
          /\ env = w.env
          /\ fs = w.fs @@ m
    /\ changes = 0
    /\ InitResolvers
    /\ InitExt

\* a call of ApplicationsDirectory::resolve
ApplicationsResolve ==
    /\ apps' = [NoApps EXCEPT !.op = "applications", !.res = applications_resolve]
    /\ UNCHANGED <<baseExt, rdn, application, cur, other, crateOut, cat, env, fs, changes, got, baseVars, appVars>>

\* a call of ApplicationDirectory::resolve(application): path is never
\* assigned, so is_resolved() is false on every call
ApplicationResolve(a) ==
    /\ LET base == applications_resolve
       IN IF base.tag # "Ok"
          THEN apps' = [NoApps EXCEPT !.op = "application", !.name = a,
                                      !.res = base]
          ELSE \E contents \in Contents :
                 LET p == manifest_path(base.path, a)
                     app == from_file(p, contents)
                 IN apps' = [op |-> "application", name |-> a,
                             res |-> app.res, read |-> p, rdn |-> app.rdn,
                             contents |-> contents]
    /\ UNCHANGED <<baseExt, rdn, application, cur, other, crateOut, cat, env, fs, changes, got, baseVars, appVars>>

\* a call of Application::from_file(path) on a file that holds contents
FromFile(p, contents) ==
    /\ LET app == from_file(p, contents)
       IN apps' = [op |-> "from_file", name |-> <<>>, res |-> app.res,
                   read |-> p, rdn |-> app.rdn, contents |-> contents]
    /\ UNCHANGED <<baseExt, rdn, application, cur, other, crateOut, cat, env,
                   fs, changes, got, baseVars, appVars>>

NextApps ==
    \/ ApplicationsResolve
    \/ \E a \in Applications : ApplicationResolve(a)
    \/ \E p \in ManifestPaths, contents \in Contents : FromFile(p, contents)

SpecApps == InitApps /\ [][NextApps]_vars

-----------------------------------------------------------------------------
(* The two layers: an Application Resolver used directly, or held by a     *)
(* per-application resolver (src/voxels/data.rs, src/voxels/state.rs)      *)

\* the categories that have a per-application resolver over the Application
\* Resolver
PerAppCategories == {"data", "state"}

\* the per-application directories whose filesystem state is modelled
PerAppPaths(c, a) ==
    IF a = NoApplication THEN {}
    ELSE {Join(q, as_path(a)) : q \in AppPaths(c) \cup {RemoteDir}}

\* the priority is set before the instance is handed to {Data,State}Directory::new
InitLayers ==
    /\ cat \in Categories
    /\ application \in {NoApplication}
            \cup (IF cat \in PerAppCategories THEN Applications ELSE {})
    /\ \E w \in Worlds(cat) :
          /\ \A n \in EnvNames(cat) \ {XdgVar(cat)} : ~w.env[n].present
          /\ \A p \in BasePaths(cat) \ {AbsDir, RelDir} : w.fs[p] = "none"
          /\ env = w.env
          /\ fs = w.fs @@ [p \in PerAppPaths(cat, application) |-> "none"]
    /\ changes = 0
    /\ basePriority = BasePriorityDefault(cat)
    /\ baseOut = NoResult
    /\ priority \in {PriorityDefault, PriorityDefaultXdgFirst}
    /\ path = None
    /\ pending = "none"
    /\ monitor = NoMonitor
    /\ last = NoCall
    /\ firstOk = None
    /\ failed = FALSE
    /\ aborted = FALSE
    /\ got = NoView
    /\ rdn = NoRdn
    /\ apps = NoApps
    /\ crateOut = NoCrateCall
    /\ baseCall = NoBaseCall
    /\ basePath = None
    /\ cur = 1
    /\ other = NoInstance

\* {Data,State}Directory::resolve(application)
PerAppResolve == Idle /\ application # NoApplication /\ ResolveCall("app_resolve")

\* {Data,State}Directory::resolve_and_create(application)
PerAppResolveAndCreate ==
    Idle /\ application # NoApplication /\ ResolveCall("app_create")

NextLayers ==
    \/ application = NoApplication /\ ResolveUsingXdg
    \/ application = NoApplication /\ Resolve
    \/ application = NoApplication /\ ResolveAndCreate
    \/ PerAppResolve
    \/ PerAppResolveAndCreate
    \/ DbusReply
    \/ ConnectionLost
    \/ \E n \in EnvNames(cat) : \E v \in EnvValues(n) : EnvChange(n, v)
    \/ \E p \in BasePaths(cat) : \E k \in KindsOf(p) : FsChange(p, k)

SpecLayers == InitLayers /\ [][NextLayers]_vars

-----------------------------------------------------------------------------
(* One per-application resolver called for several applications            *)

\* as InitLayers, for an instance held by a per-application resolver; the
\* directories of every application the caller can pass are modelled
InitPerApp ==
    /\ cat \in PerAppCategories
    /\ application \in Applications
    /\ \E w \in Worlds(cat) :
          /\ \A n \in EnvNames(cat) \ {XdgVar(cat)} : ~w.env[n].present
          /\ \A p \in BasePaths(cat) \ {AbsDir, RelDir} : w.fs[p] = "none"
          /\ env = w.env
          /\ fs = w.fs @@ [p \in UNION {PerAppPaths(cat, a) : a \in Applications}
                             |-> "none"]
    /\ changes = 0
    /\ basePriority = BasePriorityDefault(cat)
    /\ baseOut = NoResult
    /\ priority \in {PriorityDefault, PriorityDefaultXdgFirst}
    /\ path = None
    /\ pending = "none"
    /\ monitor = NoMonitor
    /\ last = NoCall
    /\ firstOk = None
    /\ failed = FALSE
    /\ aborted = FALSE
    /\ got = NoView
    /\ rdn = NoRdn
    /\ apps = NoApps
    /\ crateOut = NoCrateCall
    /\ baseCall = NoBaseCall
    /\ basePath = None
    /\ cur = 1
    /\ other = NoInstance

\* the caller takes another Application as the argument of its next call of
\* resolve(application) / resolve_and_create(application)
Pass(a) ==
    /\ Idle
    /\ a # application
    /\ application' = a
    /\ UNCHANGED <<rdn, apps, cur, other, crateOut, baseExt, got, cat, env, fs,
                   changes, baseVars, appVars>>

NextPerApp ==
    \/ \E a \in Applications : Pass(a)
    \/ PerAppResolve
    \/ PerAppResolveAndCreate
    \/ DbusReply
    \/ ConnectionLost
    \/ \E n \in EnvNames(cat) : \E v \in EnvValues(n) : EnvChange(n, v)
    \/ \E p \in BasePaths(cat) : \E k \in KindsOf(p) : FsChange(p, k)

SpecPerApp == InitPerApp /\ [][NextPerApp]_vars

-----------------------------------------------------------------------------
(* Two instances of the config category, each with its own caller         *)

\* the fields of the instance whose caller is running
Mine ==
    [basePriority |-> basePriority, priority |-> priority, path |-> path,
     pending |-> pending, monitor |-> monitor, last |-> last,
     firstOk |-> firstOk, failed |-> failed, aborted |-> aborted]

\* ConfigDirectory::new: every instance is constructed with fields of its own
NewInstance(base_order) ==
    [basePriority |-> base_order, priority |-> PriorityDefault, path |-> None,
     pending |-> "none", monitor |-> NoMonitor, last |-> NoCall,
     firstOk |-> None, failed |-> FALSE, aborted |-> FALSE]

\* a field that the two instances would share: the running caller keeps
\* seeing its own value
switched_shared(own, others) == own

\* a field of the instance the other caller works on
switched(own, others) == others

\* the environment is fixed: the standard variable is unset or names AbsDir,
\* which is a directory or missing
InitTwo ==
    /\ InitWorld
    /\ cat = "config"
    /\ env[XdgVar(cat)] \in {NotPresent, Var(AbsDir)}
    /\ fs[AbsDir] # "file"
    /\ fs[RelDir] = "none"
    /\ InitResolvers
    /\ rdn = NoRdn
    /\ apps = NoApps
    /\ crateOut = NoCrateCall
    /\ baseCall = NoBaseCall
    /\ basePath = None
    /\ application = NoApplication
    /\ cur = 1
    /\ other \in {NewInstance(BasePriorityDefault(cat)),
                  NewInstance(BasePriorityDefaultFhsFirst(cat))}

\* the scheduler turns to the caller of the other instance
Switch ==
    /\ cur' = 3 - cur
    /\ other' = Mine
    /\ basePriority' = switched(basePriority, other.basePriority)
    /\ priority' = switched(priority, other.priority)
    /\ path' = switched(path, other.path)
    /\ pending' = switched(pending, other.pending)
    /\ monitor' = switched(monitor, other.monitor)
    /\ last' = switched(last, other.last)
    /\ firstOk' = switched(firstOk, other.firstOk)
    /\ failed' = switched(failed, other.failed)
    /\ aborted' = switched(aborted, other.aborted)
    /\ UNCHANGED <<baseExt, rdn, apps, application, crateOut, got, cat, env, fs, changes, baseOut>>

NextTwo ==
    \/ \E o \in Orders : SetAll(o)
    \/ Resolve
    \/ ResolveAndCreate
    \/ DbusReply
    \/ Switch

SpecTwo == InitTwo /\ [][NextTwo]_vars

-----------------------------------------------------------------------------
(* Operations on the resolvers of src/base                                 *)

InitCrateBase ==
    /\ InitWorldBase
    /\ cat \in CrateBaseCategories
    /\ InitResolvers
    /\ InitExt

\* a call of using_voxels(), using_xdg() or using_fhs()
CrateBaseUsing(m) ==
    /\ crateOut' = [op |-> "using", how |-> m, res |-> CrateUsing(cat, m)]
    /\ UNCHANGED <<baseExt, rdn, apps, application, cur, other, got, cat, env, fs,
                   changes, baseVars, appVars>>

\* a call of resolve()
CrateBaseResolve ==
    /\ crateOut' = [op |-> "resolve", how |-> NoMethod,
                    res |-> crate_resolve(cat, CrateBasePriorityDefault)]
    /\ UNCHANGED <<baseExt, rdn, apps, application, cur, other, got, cat, env, fs,
                   changes, baseVars, appVars>>

NextCrateBase ==
    \/ \E m \in BaseMethods(cat) : CrateBaseUsing(m)
    \/ CrateBaseResolve

SpecCrateBase == InitCrateBase /\ [][NextCrateBase]_vars

-----------------------------------------------------------------------------
(* Properties of the Base Resolver (checked under SpecBase)                *)

\* the variable a strategy reads and the candidate it derives from it
StrategyVar(c, m) ==
    CASE m = "FromXDG" -> XdgVar(c)
      [] m = "FromVoxels" -> VoxelsVar(c)
      [] OTHER -> HomeVar

StrategyCandidate(c, m) ==
    LET v == get_path_from_environment(StrategyVar(c, m)).value IN
    IF m = "FromFHS" THEN v \o FhsSuffix(c) ELSE v

\* a strategy succeeds: its variable is set and its candidate passes the verifier
Succeeds(c, m) ==
    /\ get_path_from_environment(StrategyVar(c, m)).present
    /\ verify(c, StrategyCandidate(c, m))

Succeeding == {i \in DOMAIN basePriority : Succeeds(cat, basePriority[i])}

\* C1: for every category and every priority order, resolve() of the Base
\* Resolver returns the candidate and the method of the first strategy in the
\* order whose variable is set and whose candidate verifies; strategies that
\* fail earlier in the order do not keep a later one from being tried.
C1_FirstVerifiedStrategyWins ==
    (baseOut # NoResult /\ Succeeding # {}) =>
        LET i == CHOOSE j \in Succeeding : \A k \in Succeeding : j <= k IN
        baseOut = Ok(StrategyCandidate(cat, basePriority[i]), basePriority[i])

\* a resolve() under a non-default order whose first strategy failed and a
\* later one produced the result
C1_Witness ==
    /\ baseOut.tag = "Ok"
    /\ basePriority # BasePriorityDefault(cat)
    /\ ~Succeeds(cat, basePriority[0])
    /\ baseOut.how # basePriority[0]

\* C2: resolve() of the Base Resolver returns NoCandidate exactly when every
\* strategy of its priority list fails; one unset variable or one failed
\* verification is never the result while another strategy succeeds.
C2_NoCandidateIffAllFail ==
    baseOut # NoResult => (baseOut = NoCandidate <=> Succeeding = {})

\* NoCandidate after one strategy found its variable unset and another one
\* had its candidate rejected by the verifier
C2_Witness ==
    /\ baseOut = NoCandidate
    /\ \E i \in DOMAIN basePriority :
          ~get_path_from_environment(StrategyVar(cat, basePriority[i])).present
    /\ \E i \in DOMAIN basePriority :
          /\ get_path_from_environment(StrategyVar(cat, basePriority[i])).present
          /\ ~verify(cat, StrategyCandidate(cat, basePriority[i]))

-----------------------------------------------------------------------------
(* Properties of the Application Resolver (checked under Spec)             *)

Range(f) == {f[i] : i \in DOMAIN f}

\* C3: when resolve() returns the failure of a strategy, every strategy of
\* the priority order has been tried (the first failure falls through to the
\* next strategy in the order).
C3_FailureFallsThrough ==
    (last.op = "resolve" /\ last.res = NoCandidate) =>
        Range(priority) \subseteq Range(last.tried)

\* C4: two resolve() calls with no change in between: the second returns the
\* path of the first, and the Base Resolver's resolve() runs at most once
\* across the two.
C4_SecondResolveIsCached ==
    [][(/\ last.op = "resolve" /\ last.res.tag = "Ok"
        /\ last'.op = "resolve" /\ last'.tick # last.tick)
       => (last'.res = last.res /\ last.base + last'.base <= 1)]_vars

C6_FailureIsNotCached ==
    /\ (last.op = "resolve" /\ last.res = NoCandidate) => ~is_resolved
    /\ (last.op = "resolve" /\ last.afterErr
          /\ base_resolve(cat, basePriority).tag = "Ok") =>
            /\ last.res.tag = "Ok"
            /\ ~last.cached => last.base = 1

\* a resolve() that failed, a change of the world, and a resolve() that ran
\* the Base Resolver again and succeeded
C6_Witness ==
    /\ last.op = "resolve"
    /\ last.afterErr
    /\ changes > 0
    /\ last.base = 1
    /\ last.res.tag = "Ok"

\* C7: is_resolved() is true once a resolve() of the instance has returned Ok.
C7_ResolvedAfterOk == firstOk.some => is_resolved

\* C8: the cache is written at most once: a populated cache is never
\* overwritten or cleared by any call.
C8_CacheWrittenOnce == [][path.some => path' = path]_vars

\* a call made on a populated cache after the world changed
C8_Witness ==
    /\ path.some
    /\ last.cached
    /\ last.op \in {"resolve", "xdg", "dbus", "create"}
    /\ changes > 0

\* C9: when the remote request of a resolve() times out or the connection is
\* lost, resolve() does not abort: it goes on to the local strategy and
\* returns its result.
C9_RemoteFailureFallsBack ==
    (last.op = "resolve" /\ last.remote \in {"timeout", "lost"}) =>
        /\ last.res # Abort
        /\ "FromXDG" \in Range(last.tried)

\* C10: no monitor task is left running once the call that spawned it has
\* returned.
C10_MonitorEndsWithCall ==
    (pending = "none" /\ ~aborted) => monitor.state # "running"

-----------------------------------------------------------------------------
(* The result surface                                                      *)

\* C11: every path a Base Resolver's resolve() returns with Ok, in every
\* category including config, is absolute and passes the verifier.
C11_OkIsAbsoluteAndVerified ==
    baseOut.tag = "Ok" =>
        /\ is_absolute(baseOut.path)
        /\ exists(baseOut.path)
        /\ is_directory(baseOut.path)

\* C12: every completed resolve() of the Application Resolver ends with
\* Ok(path) or Err(NoCandidate); it never aborts.
C12_ResolveNeverAborts ==
    last.op = "resolve" => last.res.tag \in {"Ok", "NoCandidate"}

-----------------------------------------------------------------------------
(* The priority tables                                                     *)

\* a table holds each strategy of the method type exactly once
EachOnce(order, methods) ==
    \A m \in methods : Cardinality({i \in DOMAIN order : order[i] = m}) = 1

\* C13: set_all() never installs an order in which a strategy appears twice
\* or is missing: after every change of the Application Resolver's priority
\* table, the table holds each strategy exactly once.
C13_SetAllKeepsEachOnce ==
    [][priority' # priority => EachOnce(priority', Methods)]_vars

\* C14: in every category the priority table of the Base Resolver has as many
\* entries as the category's method type has strategies, at construction and
\* after every set_all().
C14_LengthIsStrategyCount ==
    Cardinality(DOMAIN basePriority) = Cardinality(BaseMethods(cat))

\* C15: get() hands the caller a copy: get() itself changes nothing of the
\* resolver, and no write of the caller to the returned map changes a
\* priority table or the outcome of resolve().
C15_GetReturnsCopy ==
    [][got' # got =>
        /\ basePriority' = basePriority
        /\ priority' = priority
        /\ baseOut' = baseOut
        /\ base_resolve(cat, basePriority)' = base_resolve(cat, basePriority)]_vars

\* the caller changed the map get() returned so that it would resolve
\* differently, and resolve() still followed the resolver's own table
C15_Witness ==
    /\ got.ref = "copy"
    /\ got.from = "base"
    /\ got.map # basePriority
    /\ baseOut # NoResult
    /\ baseOut = base_resolve(cat, basePriority)
    /\ baseOut # base_resolve(cat, got.map)

-----------------------------------------------------------------------------
(* Scenarios of the Base Resolver (checked under SpecBase)                 *)

Unset(name) == ~get_path_from_environment(name).present

\* C16: data category, default priority, VOXELS_DATA_HOME unset and
\* XDG_DATA_HOME set to a path that verifies: resolve() returns that path with
\* FromXDG, also when HOME/.local/share verifies.
C16_StandardBeforeFallback ==
    (/\ cat = "data"
     /\ basePriority = BasePriorityDefault("data")
     /\ baseOut # NoResult
     /\ Unset("VOXELS_DATA_HOME")
     /\ ~Unset("XDG_DATA_HOME")
     /\ verify("data", get_path_from_environment("XDG_DATA_HOME").value))
    => baseOut = Ok(get_path_from_environment("XDG_DATA_HOME").value, "FromXDG")

\* the scenario with a verifying HOME/.local/share next to the standard variable
C16_Witness ==
    /\ cat = "data"
    /\ basePriority = BasePriorityDefault("data")
    /\ Unset("VOXELS_DATA_HOME")
    /\ get_path_from_environment("XDG_DATA_HOME") = Var(AbsDir)
    /\ get_path_from_environment("HOME") = Var(HomeDir)
    /\ verify("data", HomeDir \o <<".local", "share">>)
    /\ baseOut = Ok(AbsDir, "FromXDG")

\* C17: config category, default priority, VOXELS_CONFIG_HOME and
\* XDG_CONFIG_HOME unset, HOME = /home/u and /home/u/.config an existing
\* directory: resolve() returns (/home/u/.config, FromFHS).
C17_HomeFallback ==
    (/\ cat = "config"
     /\ basePriority = BasePriorityDefault("config")
     /\ baseOut # NoResult
     /\ Unset("VOXELS_CONFIG_HOME")
     /\ Unset("XDG_CONFIG_HOME")
     /\ get_path_from_environment("HOME") = Var(<<"/", "home", "u">>)
     /\ is_directory(<<"/", "home", "u", ".config">>))
    => baseOut = Ok(<<"/", "home", "u", ".config">>, "FromFHS")

\* the scenario happened and resolve() answered from HOME
C17_Witness ==
    /\ cat = "config"
    /\ basePriority = BasePriorityDefault("config")
    /\ Unset("VOXELS_CONFIG_HOME")
    /\ Unset("XDG_CONFIG_HOME")
    /\ is_directory(<<"/", "home", "u", ".config">>)
    /\ baseOut.tag = "Ok"
    /\ baseOut.how = "FromFHS"

\* C18: runtime category, default priority, VOXELS_RUNTIME_HOME unset and
\* XDG_RUNTIME_DIR set to a path that verifies: resolve() returns that path
\* with FromXDG.
C18_RuntimeStandardSecond ==
    (/\ cat = "runtime"
     /\ basePriority = BasePriorityDefault("runtime")
     /\ baseOut # NoResult
     /\ Unset("VOXELS_RUNTIME_HOME")
     /\ ~Unset("XDG_RUNTIME_DIR")
     /\ verify("runtime", get_path_from_environment("XDG_RUNTIME_DIR").value))
    => baseOut = Ok(get_path_from_environment("XDG_RUNTIME_DIR").value, "FromXDG")

-----------------------------------------------------------------------------
(* The default priority of the Application Resolver (checked under         *)
(* SpecFresh)                                                              *)

\* C19: a freshly constructed Application Resolver of every category has the
\* priority [FromDBus, FromXDG]: resolve() on an unresolved instance goes to
\* the remote strategy first and has not called the Base Resolver; without
\* the remote strategy the default is [FromXDG] alone.
C19_RemoteFirstByDefault ==
    /\ priority = (0 :> "FromDBus" @@ 1 :> "FromXDG")
    /\ (pending = "resolve" \/ (last.op = "resolve" /\ ~last.cached)) =>
          /\ Len(last.tried) > 0
          /\ last.tried[1] = "FromDBus"
          /\ last.base = 0
    /\ PriorityDefaultLocal = (0 :> "FromXDG")

\* a resolve() on a fresh, unresolved instance that the remote service answered
C19_Witness ==
    /\ last.op = "resolve"
    /\ ~last.cached
    /\ last.remote = "ok"
    /\ last.res.tag = "Ok"
    /\ last.base = 0

-----------------------------------------------------------------------------
(* The verifier (checked under SpecBase)                                   *)

\* the candidates the strategies of the category hand to the verifier
Candidates ==
    {StrategyCandidate(cat, m) :
        m \in {x \in BaseMethods(cat) : ~Unset(StrategyVar(cat, x))}}

ProbeOrder == <<"exists", "is_directory", "is_absolute">>

VerifyContract(c, p) ==
    /\ verify(c, p) <=>
          (exists(p) /\ is_directory(p) /\ (c # "config" => is_absolute(p)))
    /\ IsPrefix(probes(c, p), ProbeOrder)
    /\ probes(c, p)[1] = "exists"
    /\ "is_directory" \in Range(probes(c, p)) <=> exists(p)
    /\ "is_absolute" \in Range(probes(c, p)) <=>
          (c # "config" /\ exists(p) /\ is_directory(p))

\* C20: verify(path) is true exactly when the path exists, is a directory
\* and, except for config, is absolute; exists, is_directory, is_absolute are
\* probed in this order and a failing probe ends the probing; a resolve()
\* that verifies candidates changes neither the filesystem nor the
\* environment.
C20_VerifierOrder ==
    [][/\ \A p \in Candidates : VerifyContract(cat, p)
       /\ baseOut' # baseOut => (fs' = fs /\ env' = env)]_vars

\* a resolve() whose verifier rejected an existing directory for being
\* relative while another candidate did not exist
C20_Witness ==
    /\ cat # "config"
    /\ baseOut # NoResult
    /\ \E p \in Candidates :
          exists(p) /\ is_directory(p) /\ ~is_absolute(p) /\ ~verify(cat, p)
    /\ \E p \in Candidates : ~exists(p)

-----------------------------------------------------------------------------
(* resolve_and_create (checked under Spec)                                 *)

C22_CreatesCachedPath ==
    [][(last'.op = "create" /\ fs' # fs)
       => (path'.some /\ path'.value = last'.res.path)]_vars

\* a component of p is a regular file, so no directory can be made at p
Blocked(p) == \E q \in DOMAIN fs : IsPrefix(q, p) /\ fs[q] = "file"

\* C23: in resolve_and_create(), once resolve() has returned a path, the call
\* returns Ok with that path when the directory is there afterwards (already
\* existing or just created), and it ends without Ok only when the directory
\* could not be created; a failed creation is never answered with Ok.
C23_CreateFailureIsFatal ==
    (last.op = "create" /\ last.resolved.tag = "Ok") =>
        \/ /\ last.res = last.resolved
           /\ is_directory(last.res.path)
           /\ ~Blocked(last.res.path)
        \/ /\ last.res = Abort
           /\ Blocked(last.resolved.path)
           /\ ~is_directory(last.resolved.path)

\* a resolve_and_create() that could not create its directory
C23_Witness ==
    /\ last.op = "create"
    /\ last.resolved.tag = "Ok"
    /\ last.res = Abort
    /\ Blocked(last.resolved.path)

-----------------------------------------------------------------------------
(* Application identities (checked under SpecRDN)                          *)

\* the documented conditions on a name, its length counted in characters
ValidName(name) ==
    /\ name # <<>>
    /\ Len(name) <= 255
    /\ \E i \in 1..Len(name) : name[i] = "."
    /\ \A i \in 1..Len(name) :
          /\ name[i] = "." => i # 1 /\ i # Len(name) /\ name[i + 1] # "."
          /\ (i = 1 \/ name[i - 1] = ".") => name[i] \notin Digits
    /\ \A i \in 1..Len(name) :
          name[i] \in AsciiLetters \cup {WideLetter} \cup Digits \cup {"_", "."}

\* C24: ApplicationRDN::new(name) returns Ok exactly when name is non-empty, at
\* most 255 characters long, contains a '.', has no empty segment and no
\* segment starting with a digit, and consists of alphanumeric characters, '_'
\* and '.'; otherwise it returns InvalidName
C24_OkExactlyWhenValid ==
    rdn.out.tag # "none" =>
        /\ rdn.out.tag = "Ok" <=> ValidName(rdn.name)
        /\ rdn.out.tag = "Ok" => rdn.out.name = rdn.name
        /\ rdn.name = ComExampleApp => rdn.out.tag = "Ok"
        /\ (\/ rdn.name \in {Example, OneComExample}
            \/ Len(rdn.name) = 256) => rdn.out = InvalidName
-----------------------------------------------------------------------------
(* Manifests (checked under SpecApps)                                      *)

\* C25: the manifest read for application A is at
\* <applications-dir>/<A's name>/manifest.toml, where <applications-dir> is the
\* path the applications-directory resolver returns: the applications segment
\* appears once, the name and the file name are separate segments
C25_ManifestLocation ==
    (apps.op = "application" /\ apps.read # <<>>) =>
        /\ applications_resolve.tag = "Ok"
        /\ apps.read = applications_resolve.path
                          \o <<concat(apps.name), "manifest.toml">>
        /\ Cardinality({i \in 1..Len(apps.read) : apps.read[i] = "applications"}) = 1
-----------------------------------------------------------------------------
(* The composition of the returned path (checked under SpecLayers)         *)

\* C26: a local resolution of the Application Resolver returns the Base
\* Resolver's path joined with the one segment "voxels", in every category; a
\* per-application data or state resolver returns the Application Resolver's
\* path joined with the one segment of the application identity; nothing else
\* is added or dropped
C26_TwoLayers ==
    [][(last'.tick # last.tick /\ last'.resolved.tag = "Ok")
       => LET b == base_resolve(cat, basePriority)
              own == IF last'.op \in {"app_resolve", "app_create"}
                     THEN <<concat(application)>> ELSE <<>>
          IN /\ last'.base = 1 =>
                   /\ b.tag = "Ok"
                   /\ last'.resolved.path = b.path \o <<"voxels">> \o own
             /\ path'.some => last'.resolved.path = path'.value \o own
             /\ last'.op \in {"app_resolve", "app_create"} =>
                   /\ application # <<>>
                   /\ cat \in {"data", "state"}]_vars

C26_Witness ==
    /\ last.op = "app_resolve"
    /\ last.base = 1
    /\ last.res.tag = "Ok"
    /\ application = ComExampleApp
    /\ Len(last.res.path) = 4
-----------------------------------------------------------------------------
(* Independence of instances (checked under SpecTwo)                       *)

CacheOf(i) == IF cur = i THEN path ELSE other.path
PriorityOf(i) == IF cur = i THEN priority ELSE other.priority
BasePriorityOf(i) == IF cur = i THEN basePriority ELSE other.basePriority

\* what resolve() of the running instance returns from its own fields and the
\* world, the remote answers being those of RemoteReplies
OwnResults ==
    IF priority[0] = "FromXDG"
    THEN {IF path.some THEN AppOk(path.value)
          ELSE LET b == base_resolve(cat, basePriority)
               IN IF b.tag = "Ok" THEN AppOk(b.path \o <<"voxels">>)
                  ELSE NoCandidate}
    ELSE IF cat \notin {"config", "data"} THEN {Abort}
    ELSE IF path.some THEN {AppOk(path.value)}
    ELSE {Abort} \cup {AppOk(s) : s \in RemoteReplies}

-----------------------------------------------------------------------------
(* The resolvers of src/base (checked under SpecCrateBase)                 *)

CrateSucceeding ==
    {i \in DOMAIN CrateBasePriorityDefault :
        Succeeds(cat, CrateBasePriorityDefault[i])}

\* C28: resolve() of the src/base resolvers goes through the whole priority
\* list: it returns the path and the method of the first strategy in the order
\* that succeeds, also when strategies before it failed, and NoCandidate only
\* when all three strategies fail
C28_CrateResolveIteratesAll ==
    crateOut.op = "resolve" =>
        IF CrateSucceeding = {} THEN crateOut.res = NoCandidate
        ELSE LET i == CHOOSE j \in CrateSucceeding :
                          \A k \in CrateSucceeding : j <= k
                 m == CrateBasePriorityDefault[i]
             IN crateOut.res = Ok(StrategyCandidate(cat, m), m)

\* C29: using_voxels(), using_xdg() and using_fhs() of the src/base resolvers
\* return Err(NoCandidate) when the variable they read is unset; an unset
\* variable never aborts the call
C29_CrateUnsetIsNoCandidate ==
    (/\ crateOut.op = "using"
     /\ ~get_path_from_environment(StrategyVar(cat, crateOut.how)).present)
        => crateOut.res = NoCandidate
-----------------------------------------------------------------------------
(* The attempts of one resolve() of the Base Resolver (checked under       *)
(* SpecBase)                                                               *)

\* C30: resolve() of the Base Resolver stops at the first success: the
\* strategy that produced the path is the last one attempted, so no variable
\* is read and no candidate verified for a later strategy (with the default
\* order and a verified VOXELS_CONFIG_HOME only FromVoxels is attempted), and
\* no strategy is attempted twice in one call
C30_StopsAtFirstSuccess ==
    baseOut # NoResult =>
        LET a == base_attempts(cat, basePriority) IN
        /\ \A i \in 1..Len(a) : Succeeds(cat, a[i]) => i = Len(a)
        /\ baseOut.tag = "Ok" =>
              /\ Len(a) >= 1
              /\ a[Len(a)] = baseOut.how
              /\ Succeeds(cat, baseOut.how)
        /\ (/\ basePriority = BasePriorityDefault(cat)
            /\ Succeeds(cat, "FromVoxels")) => a = <<"FromVoxels">>
        /\ \A m \in BaseMethods(cat) :
              Cardinality({i \in 1..Len(a) : a[i] = m}) <= 1
-----------------------------------------------------------------------------
(* The per-strategy operations and the frame of the Base Resolver (checked *)
(* under SpecUsing)                                                        *)

\* C31: each using_* operation reads exactly one variable (HOME for using_fhs,
\* the standard variable for using_xdg, the override variable for
\* using_voxels) and verifies at most one candidate, exactly one when the
\* variable is set: HOME joined with the category suffix for using_fhs, the
\* value unchanged for the other two; it returns Ok(candidate) exactly when the
\* variable is set and verify(candidate) is true, and NoCandidate otherwise
C31_OneVariableOneCandidate ==
    baseCall.op = "using" =>
        LET m == baseCall.how
            name == StrategyVar(cat, m)
            v == get_path_from_environment(name)
            suffix == CASE cat = "config" -> <<".config">>
                        [] cat = "data" -> <<".local", "share">>
                        [] cat = "state" -> <<".local", "state">>
                        [] OTHER -> <<>>
            candidate == IF m = "FromFHS" THEN v.value \o suffix ELSE v.value
        IN /\ baseCall.reads = <<name>>
           /\ baseCall.verified = IF v.present THEN <<candidate>> ELSE <<>>
           /\ IF v.present /\ verify(cat, candidate)
              THEN baseCall.res = Ok(candidate, m)
              ELSE baseCall.res = NoCandidate

C31_Witness ==
    /\ baseCall.op = "using"
    /\ baseCall.how = "FromFHS"
    /\ baseCall.res.tag = "Ok"
    /\ Len(baseCall.verified) = 1
    /\ env[XdgVar(cat)].present
    /\ ~verify(cat, env[XdgVar(cat)].value)

\* C32: resolve() and using_*() of the Base Resolver are read-only: they leave
\* the priority table and the stored path field as they were, the stored path
\* field is empty in every reachable state, and no call changes the
\* filesystem
C32_BaseIsReadOnly ==
    [][/\ basePath = None /\ basePath' = None
       /\ fs' = fs
       /\ (baseOut'.tag \in {"Ok", "NoCandidate"} \/ baseCall' # baseCall)
             => basePriority' = basePriority]_vars

C32_Witness ==
    /\ baseOut.tag = "Ok"
    /\ baseCall.op = "using"
    /\ baseCall.res.tag = "Ok"
    /\ basePriority # BasePriorityDefault(cat)
    /\ basePath = None
-----------------------------------------------------------------------------
(* The remote strategy (checked under Spec)                                *)

\* C33: on an unresolved instance whose remote call succeeds,
\* resolve_using_dbus() sends one request, for the method of its own category,
\* returns the path the service answered as it is, without a call of the Base
\* Resolver or the verifier and without a joined segment, and stores it in the
\* cache
C33_RemoteAnswerAsItIs ==
    (last.op = "dbus" /\ last.remote = "ok") =>
        /\ ~last.cached
        /\ cat \in {"config", "data"}
        /\ last.requests = <<cat>>
        /\ last.res.tag = "Ok"
        /\ last.res.path \in RemoteReplies
        /\ last.base = 0
        /\ path = Some(last.res.path)

\* the answer is returned though it would not pass the verifier
C33_Witness ==
    /\ last.op = "dbus" /\ last.remote = "ok"
    /\ cat = "data"
    /\ last.res.tag = "Ok"
    /\ ~verify(cat, last.res.path)
    /\ is_resolved
-----------------------------------------------------------------------------
(* Loaded applications (checked under SpecApps)                            *)

\* C34: the identity of an Application loaded by from_file(path) is the name of
\* the directory that holds the manifest, accepted by ApplicationRDN::new; a
\* directory name that is not accepted loads nothing, and whatever the file
\* holds does not set or change the identity
C34_IdentityFromDirectory ==
    apps.op = "from_file" =>
        LET dir == apps.read[Len(apps.read) - 1] IN
        /\ apps.res.tag = "Ok" =>
              /\ concat(apps.rdn) = dir
              /\ ApplicationRDN_new(apps.rdn) = RdnOk(apps.rdn)
        /\ ApplicationRDN_new(spelling(dir)).tag # "Ok" => apps.res = Abort

\* a manifest that names another identity than its directory
C34_Witness ==
    /\ apps.op = "from_file"
    /\ apps.res.tag = "Ok"
    /\ apps.rdn = ComExampleApp
    /\ apps.contents.rdn \in Applications \ {ComExampleApp}
-----------------------------------------------------------------------------
(* The ApplicationRDN values that exist (checked under SpecValues)         *)

\* C35: every ApplicationRDN value that exists satisfies the rules of
\* ApplicationRDN::new, values being produced by a successful new() only
C35_ValuesAreValid ==
    rdn.out.tag = "Ok" => ApplicationRDN_new(rdn.out.name) = RdnOk(rdn.out.name)
-----------------------------------------------------------------------------
(* resolve_and_create() whose resolution fails (checked under SpecLayers)  *)

\* C36: when the resolution inside resolve_and_create() fails, the call
\* returns what the resolution returned, Err(NoCandidate), no directory is
\* created and the cache is left as it was: the filesystem and is_resolved()
\* are the same as before the call
C36_FailedCreateChangesNothing ==
    [][(/\ last' # last
        /\ last'.op \in CreateOps
        /\ last'.resolved.tag # "Ok")
       => (/\ last'.res = last'.resolved
           /\ fs' = fs
           /\ path' = path
           /\ ~last'.made)]_vars

\* a resolve_and_create() returned Err(NoCandidate) while the directory it
\* would have created for the standard variable's value is missing
C36_Witness ==
    /\ last.op \in CreateOps
    /\ last.resolved = NoCandidate
    /\ last.res = NoCandidate
    /\ ~is_resolved
    /\ \E p \in DOMAIN fs : fs[p] = "none"
-----------------------------------------------------------------------------
(* The keys of the priority tables (checked under SpecPriority)            *)

Contiguous(table) == DOMAIN table = 0..(Cardinality(DOMAIN table) - 1)

\* C37: in every reachable state the keys of the priority table of the Base
\* Resolver and of the Application Resolver are exactly the indices
\* 0..len-1, so the lookup order[&index] of resolve() finds an entry for
\* every index below the table's length
C37_KeysAreContiguous ==
    /\ Contiguous(basePriority)
    /\ Contiguous(priority)
    /\ \A index \in 0..(Cardinality(DOMAIN basePriority) - 1) :
          index \in DOMAIN basePriority
    /\ \A index \in 0..(Cardinality(DOMAIN priority) - 1) :
          index \in DOMAIN priority

\* set_all has replaced both tables, the one-entry default of the runtime
\* Base Resolver included
C37_Witness ==
    /\ cat = "runtime"
    /\ Cardinality(DOMAIN basePriority) = 3
    /\ basePriority[2] # basePriority[0]
    /\ priority # PriorityDefault
-----------------------------------------------------------------------------
(* One per-application resolver, several applications (checked under       *)
(* SpecPerApp)                                                             *)

====
